---- MODULE Spec2Model ----
(***************************************************************************)
(* Model of scripts/extract_html.py: the Messenger HTML extractor.         *)
(*                                                                         *)
(* State: the filesystem (the export tree, the ID-map files, the CSV       *)
(* file), the uuid4 source, and one run of main() at a time with the       *)
(* MessengerHTMLExtractor's fields and process_directory's locals.         *)
(*                                                                         *)
(* Representation:                                                         *)
(*   - a str is a sequence of one-character strings, so that strip() and   *)
(*     lower() are computed character by character;                        *)
(*   - Optional[datetime] is <<>> (None) or <<t>> with t an integer that   *)
(*     keeps the order of the datetimes;                                   *)
(*   - a path is the sequence of its parts; str/Path comparison is         *)
(*     lexicographic by parts, with the order of the part strings given    *)
(*     by StrRank;                                                         *)
(*   - sha256 is a fixed injective table on the folders of the model;      *)
(*   - uuid4() never repeats: the n-th call returns the identifier n.      *)
(*                                                                         *)
(* The export tree is fixed in the initial state and read by every run.    *)
(* Three specifications share the actions and differ in the trees:         *)
(*   Spec     - two threads, up to MaxRuns runs with any input directory   *)
(*              and either ID-map file, plain messages;                    *)
(*   SpecSort - one run over one thread of two documents with up to        *)
(*              MaxMsgs messages each, dated, undated and tied;            *)
(*   SpecRow  - one run over one thread with a message of every shape      *)
(*              (sender, body, images, links, text) and every title.       *)
(***************************************************************************)
EXTENDS Integers, Sequences, FiniteSets, TLC

\* How many times main() is run in one behaviour of Spec.
MaxRuns == 2
\* How many message sections one document holds at most (SpecSort).
MaxMsgs == 2

None == <<>>

RECURSIVE SeqsUpTo(_, _)
SeqsUpTo(S, n) ==
    IF n = 0 THEN {<<>>}
    ELSE LET shorter == SeqsUpTo(S, n - 1)
         IN  shorter \cup {Append(s, x) : s \in {t \in shorter : Len(t) = n - 1}, x \in S}

(***************************************************************************)
(* str methods                                                             *)
(***************************************************************************)
IsSpace(c) == c = " "

RECURSIVE lstrip(_)
lstrip(s) == IF s # <<>> /\ IsSpace(Head(s)) THEN lstrip(Tail(s)) ELSE s

RECURSIVE rstrip(_)
rstrip(s) == IF s # <<>> /\ IsSpace(s[Len(s)]) THEN rstrip(SubSeq(s, 1, Len(s) - 1)) ELSE s

strip(s) == rstrip(lstrip(s))

LowerChar(c) == CASE c = "J" -> "j" [] c = "S" -> "s" [] OTHER -> c

RECURSIVE lower(_)
lower(s) == IF s = <<>> THEN <<>> ELSE <<LowerChar(Head(s))>> \o lower(Tail(s))

\* bool(s) of a str
Truthy(s) == s # <<>>

(***************************************************************************)
(* _safe_parse_timestamp: strip, collapse whitespace, uppercase the        *)
(* trailing am/pm, strptime against _TS_FORMAT; None on empty input or on  *)
(* any parse failure.  The raw strings of the model and what they parse to.*)
(***************************************************************************)
safe_parse_timestamp(raw) ==
    CASE raw = "" -> None
      [] raw = "Jan 11, 2026 9:02:58 am" -> <<1>>
      [] raw = "Jan 11,  2026 9:02:58 AM " -> <<1>>
      [] raw = "Jan 11, 2026 9:02:58 pm" -> <<2>>
      [] OTHER -> None

(***************************************************************************)
(* _extract_message_text_and_meta.  A section is                           *)
(*   [sender, body, imgs, anchors, text, ts_raw]:                          *)
(*   body    - whether div._a6-p is there;                                 *)
(*   imgs    - the number of img elements in the body;                     *)
(*   anchors - one entry per a[href] of the body, TRUE when it wraps an    *)
(*             img;                                                        *)
(*   text    - what body.get_text gives once reactions, images and href    *)
(*             targets are removed, before the final strip.                *)
(***************************************************************************)
RECURSIVE CountLinks(_)
CountLinks(anchors) ==
    IF anchors = <<>> THEN 0
    ELSE (IF Head(anchors) THEN 0 ELSE 1) + CountLinks(Tail(anchors))

extract_message_text_and_meta(section) ==
    IF ~section.body
    THEN [text |-> <<>>, has_image |-> FALSE, image_count |-> 0,
          has_link |-> FALSE, link_count |-> 0]
    ELSE [text |-> strip(section.text),
          has_image |-> section.imgs > 0, image_count |-> section.imgs,
          has_link |-> CountLinks(section.anchors) > 0,
          link_count |-> CountLinks(section.anchors)]

(***************************************************************************)
(* parse_messenger_html.  A document is [ok, title, sections]; ok = FALSE  *)
(* is a document whose parse raises.                                       *)
(***************************************************************************)
ParsedMessage(section) ==
    LET meta == extract_message_text_and_meta(section)
    IN  [sender_name |-> section.sender,
         text |-> meta.text,
         timestamp |-> safe_parse_timestamp(section.ts_raw),
         has_image |-> meta.has_image,
         image_count |-> meta.image_count,
         has_link |-> meta.has_link,
         link_count |-> meta.link_count]

RECURSIVE ParseSections(_)
ParseSections(sections) ==
    IF sections = <<>> THEN <<>>
    ELSE <<ParsedMessage(Head(sections))>> \o ParseSections(Tail(sections))

parse_messenger_html(doc) ==
    [customer_name |-> doc.title, messages |-> ParseSections(doc.sections)]

(***************************************************************************)
(* Paths, find_message_htmls, thread_key_for_file                          *)
(***************************************************************************)
\* The order str comparison gives the path parts of the model.
StrRank(part) ==
    CASE part = "f1" -> 1
      [] part = "f2" -> 2
      [] part = "message_10.html" -> 3
      [] part = "message_2.html" -> 4
      [] part = "notes.html" -> 5
      [] part = "photos" -> 6

RECURSIVE PathLess(_, _)
PathLess(a, b) ==
    IF a = <<>> THEN b # <<>>
    ELSE IF b = <<>> THEN FALSE
    ELSE IF Head(a) = Head(b) THEN PathLess(Tail(a), Tail(b))
    ELSE StrRank(Head(a)) < StrRank(Head(b))

Parent(path) == SubSeq(path, 1, Len(path) - 1)
Name(path) == path[Len(path)]

IsUnder(path, dir) ==
    /\ Len(dir) < Len(path)
    /\ SubSeq(path, 1, Len(dir)) = dir

\* fnmatch of the file name against "message_*.html"
MatchesPattern(name) == name \in {"message_10.html", "message_2.html"}

\* Path.exists() of a directory: the root of the tree, or a folder on the way
\* to one of its files.
DirExists(t, dir) ==
    \/ dir = <<>>
    \/ \E path \in DOMAIN t : IsUnder(path, dir)

RECURSIVE SortedPaths(_)
SortedPaths(S) ==
    IF S = {} THEN <<>>
    ELSE LET least == CHOOSE x \in S : \A y \in S \ {x} : PathLess(x, y)
         IN  <<least>> \o SortedPaths(S \ {least})

find_message_htmls(t, dir) ==
    SortedPaths({path \in DOMAIN t :
                    /\ IsUnder(path, dir)
                    /\ MatchesPattern(Name(path))
                    /\ \A i \in 1..Len(path) : path[i] # "photos"})

\* hashlib.sha256 of the resolved folder, as a number; injective on the
\* folders of the model, and not in the order of the folder names.
sha256(folder) ==
    CASE folder = <<"f1">> -> 7
      [] folder = <<"f2">> -> 3
      [] folder = <<"f1", "photos">> -> 5
      [] OTHER -> 9

thread_key_for_file(path) == sha256(Parent(path))

\* threads.setdefault(key, []).append(hp) over html_files
GroupThreads(html_files) ==
    LET keys == {thread_key_for_file(html_files[i]) : i \in 1..Len(html_files)}
    IN  [k \in keys |->
            SelectSeq(html_files, LAMBDA hp : thread_key_for_file(hp) = k)]

RECURSIVE SortedKeys(_)
SortedKeys(S) ==
    IF S = {} THEN <<>>
    ELSE LET least == CHOOSE x \in S : \A y \in S : x <= y
         IN  <<least>> \o SortedKeys(S \ {least})

(***************************************************************************)
(* The ID map                                                              *)
(***************************************************************************)
EmptyMap == [k \in {} |-> 0]

AbsentFile == [kind |-> "absent", map |-> EmptyMap]
MalformedFile == [kind |-> "malformed", map |-> EmptyMap]
JsonFile(m) == [kind |-> "json", map |-> m]

\* load_id_map of a file json.loads accepts
load_id_map(file) == IF file.kind = "absent" THEN EmptyMap ELSE file.map

\* uuid4() at its n-th call
uuid4(calls) == calls + 1

get_or_create_conversation_id_always_new(m, key, calls) ==
    [cid |-> uuid4(calls), id_map |-> [k \in DOMAIN m \cup {key} |->
                                          IF k = key THEN uuid4(calls) ELSE m[k]],
     calls |-> calls + 1]

get_or_create_conversation_id_not_stored(m, key, calls) ==
    IF key \in DOMAIN m
    THEN [cid |-> m[key], id_map |-> m, calls |-> calls]
    ELSE [cid |-> uuid4(calls), id_map |-> m, calls |-> calls + 1]

\* The identifier returned, the map afterwards, and the uuid4 calls made so far.
get_or_create_conversation_id(m, key, calls) ==
    IF key \in DOMAIN m
    THEN [cid |-> m[key], id_map |-> m, calls |-> calls]
    ELSE [cid |-> uuid4(calls),
          id_map |-> [k \in DOMAIN m \cup {key} |->
                         IF k = key THEN uuid4(calls) ELSE m[k]],
          calls |-> calls + 1]

(***************************************************************************)
(* all_msgs.sort(key=lambda m: (m.timestamp is None,                       *)
(*                              m.timestamp or datetime.min))              *)
(***************************************************************************)
datetime_min == 0

sort_key_timestamp_only(m) ==
    <<FALSE, IF m.timestamp # None THEN m.timestamp[1] ELSE datetime_min>>

\* A datetime is always truthy, so "timestamp or datetime.min" is the
\* timestamp unless it is None.
sort_key(m) ==
    <<m.timestamp = None, IF m.timestamp # None THEN m.timestamp[1] ELSE datetime_min>>

\* Tuple comparison, with False < True.
KeyLess(a, b) ==
    \/ ~a[1] /\ b[1]
    \/ a[1] = b[1] /\ a[2] < b[2]

\* m goes behind every element whose key is not greater: the sort is stable.
RECURSIVE InsertStable(_, _)
InsertStable(s, m) ==
    IF s = <<>> THEN <<m>>
    ELSE IF KeyLess(sort_key(m), sort_key(Head(s))) THEN <<m>> \o s
    ELSE <<Head(s)>> \o InsertStable(Tail(s), m)

RECURSIVE SortInto(_, _)
SortInto(done, rest) ==
    IF rest = <<>> THEN done
    ELSE SortInto(InsertStable(done, Head(rest)), Tail(rest))

list_sort(msgs) == SortInto(<<>>, msgs)

AnyTimestamp(msgs) == \E i \in 1..Len(msgs) : msgs[i].timestamp # None

sort_if_any_timestamp(msgs) == IF AnyTimestamp(msgs) THEN list_sort(msgs) ELSE msgs

(***************************************************************************)
(* infer_role and the output rows                                          *)
(***************************************************************************)
infer_role_case_sensitive(sender_name, customer_name) ==
    IF /\ Truthy(sender_name)
       /\ Truthy(customer_name)
       /\ strip(sender_name) = strip(customer_name)
    THEN "customer"
    ELSE "assistant"

infer_role(sender_name, customer_name) ==
    IF /\ Truthy(sender_name)
       /\ Truthy(customer_name)
       /\ lower(strip(sender_name)) = lower(strip(customer_name))
    THEN "customer"
    ELSE "assistant"

\* int(b) of a bool
BoolInt(b) == IF b THEN 1 ELSE 0

is_media_only_image_only(text_clean, has_image, has_link) ==
    BoolInt(~Truthy(text_clean) /\ has_image)

is_media_only(text_clean, has_image, has_link) ==
    BoolInt(~Truthy(text_clean) /\ (has_image \/ has_link))

\* enumerate(all_msgs, start=1) at the pos-th element
msg_index_from_zero(pos) == pos - 1

msg_index(pos) == pos

Row(cid, pos, m, customer_name) ==
    LET text_clean == strip(m.text)
    IN  [conversation_id |-> cid,
         msg_id |-> msg_index(pos),
         role |-> infer_role(m.sender_name, customer_name),
         text |-> text_clean,
         has_image |-> BoolInt(m.has_image),
         image_count |-> m.image_count,
         has_link |-> BoolInt(m.has_link),
         link_count |-> m.link_count,
         is_media_only |-> is_media_only(text_clean, m.has_image, m.has_link)]

RECURSIVE RowsFrom(_, _, _, _)
RowsFrom(cid, pos, msgs, customer_name) ==
    IF msgs = <<>> THEN <<>>
    ELSE <<Row(cid, pos, Head(msgs), customer_name)>>
         \o RowsFrom(cid, pos + 1, Tail(msgs), customer_name)

fieldnames ==
    <<"conversation_id", "msg_id", "role", "text", "has_image", "image_count",
      "has_link", "link_count", "is_media_only">>

NoCsv == [exists |-> FALSE, header |-> <<>>, rows |-> <<>>]

(***************************************************************************)
(* The inputs: export trees, ID-map files, command lines                   *)
(***************************************************************************)
TsAm == "Jan 11, 2026 9:02:58 am"
TsPm == "Jan 11, 2026 9:02:58 pm"

Section(sender, body, imgs, anchors, text, ts_raw) ==
    [sender |-> sender, body |-> body, imgs |-> imgs, anchors |-> anchors,
     text |-> text, ts_raw |-> ts_raw]

TextSection(sender, ts_raw) == Section(sender, TRUE, 0, <<>>, <<"h">>, ts_raw)

Doc(title, sections) == [ok |-> TRUE, title |-> title, sections |-> sections]
FailDoc == [ok |-> FALSE, title |-> <<>>, sections |-> <<>>]

P10 == <<"f1", "message_10.html">>
P2 == <<"f1", "message_2.html">>
PF2 == <<"f2", "message_2.html">>
PPhotos == <<"f1", "photos", "message_2.html">>
PNotes == <<"f2", "notes.html">>

\* In every tree: a message file in an attachment folder and a file whose
\* name is not message_*.html.
FixedFiles ==
    LET d == Doc(<<"J">>, <<TextSection(<<"J">>, TsAm)>>)
    IN  [path \in {PPhotos, PNotes} |-> d]

NoFiles == [path \in {} |-> FailDoc]

OptionalFile(path, docs) == {NoFiles} \cup {[q \in {path} |-> d] : d \in docs}

Merge(f, g) == [x \in DOMAIN f \cup DOMAIN g |-> IF x \in DOMAIN f THEN f[x] ELSE g[x]]

Trees(docs10, docs2, docsF2) ==
    {Merge(FixedFiles, Merge(a, Merge(b, c))) :
        a \in OptionalFile(P10, docs10),
        b \in OptionalFile(P2, docs2),
        c \in OptionalFile(PF2, docsF2)}

\* Spec: several threads, several runs, plain messages.
RunDocs ==
    {FailDoc, Doc(<<"j">>, <<>>),
     Doc(<<"j">>, <<TextSection(<<"J">>, TsAm)>>),
     Doc(<<"j">>, <<TextSection(<<"s">>, "")>>),
     Doc(<<>>, <<TextSection(<<"s">>, ""), TextSection(<<"J">>, TsAm)>>)}

RunTrees == Trees(RunDocs, RunDocs, {FailDoc, Doc(<<"j">>, <<TextSection(<<"J">>, TsAm)>>)})

\* SpecSort: one thread of two documents with up to MaxMsgs messages each,
\* dated and undated, with messages that tie on the timestamp and differ in
\* the sender.
SortSections ==
    {TextSection(<<"J">>, TsAm), TextSection(<<"s">>, "Jan 11,  2026 9:02:58 AM "),
     TextSection(<<"J">>, TsPm),
     TextSection(<<"J">>, ""), TextSection(<<"s">>, "yesterday")}

SortDocs == {FailDoc} \cup {Doc(<<"j">>, ss) : ss \in SeqsUpTo(SortSections, MaxMsgs)}

SortTrees == Trees(SortDocs, SortDocs, {})

\* SpecRow: one message of every shape, and the titles of two documents.
Senders == {<<>>, <<"J">>, <<"j">>, <<"s">>}

RowSections ==
    {Section(sender, FALSE, 1, <<FALSE>>, <<"h">>, TsAm) : sender \in Senders}
    \cup
    {Section(sender, TRUE, imgs, anchors, text, ts_raw) :
        sender \in Senders,
        imgs \in {0, 1},
        anchors \in {<<>>, <<FALSE>>, <<TRUE>>},
        text \in {<<>>, <<" ">>, <<"h">>},
        ts_raw \in {"", TsPm}}

RowTrees ==
    {t \in Trees({Doc(title, <<sec>>) : title \in {<<>>, <<"J">>}, sec \in RowSections},
                 {FailDoc, Doc(<<>>, <<>>), Doc(<<"j">>, <<>>), Doc(<<"s">>, <<>>)},
                 {}) :
        \* an a[href] that wraps an img has that img in the body
        P10 \in DOMAIN t =>
            \A i \in 1..Len(t[P10].sections) :
                LET sec == t[P10].sections[i]
                IN  (\E j \in 1..Len(sec.anchors) : sec.anchors[j]) => sec.imgs > 0}

IdMapPaths == {"map1.json", "map2.json"}
InputDirs == {<<>>, <<"f1">>, <<"missing">>}

(***************************************************************************)
(* State                                                                   *)
(***************************************************************************)
VARIABLES
    tree,                 \* the export tree: path -> document
    id_files,             \* the ID-map files: path -> file
    csv_file,             \* the file at --output
    uuid_calls,           \* how many times uuid4() has been called
    runs_left,            \* how many more times main() is run
    pc,                   \* where the run is
    input_dir,            \* args.input_dir
    id_map_path,          \* self.id_map_path
    id_map,               \* self.id_map
    rows,                 \* self.rows
    threads,              \* process_directory: threads
    todo,                 \* the thread keys the outer loop has yet to take
    thread_key,           \* the outer loop's thread_key
    files,                \* the documents the inner loop has yet to take
    conversation_id,      \* process_directory: conversation_id
    customer_name_final,  \* process_directory: customer_name_final
    all_msgs,             \* process_directory: all_msgs
    exit_status,          \* the status the process exits with, -1 before
    loaded,               \* what load_id_map returned in this run
    io_log,               \* the ID-map and CSV operations of this run, in order
    skipped,              \* the documents whose parse raised in this run
    last                  \* the previous run that returned 0

vars ==
    <<tree, id_files, csv_file, uuid_calls, runs_left, pc, input_dir, id_map_path,
      id_map, rows, threads, todo, thread_key, files, conversation_id,
      customer_name_final, all_msgs, exit_status, loaded, io_log, skipped, last>>

NoThreads == [k \in {} |-> <<>>]

NoRun ==
    [valid |-> FALSE, input_dir |-> <<>>, loaded |-> EmptyMap, rows |-> <<>>,
     id_map |-> EmptyMap]

InitWith(trees, idFiles, runs) ==
    /\ tree \in trees
    /\ id_files \in idFiles
    /\ csv_file = NoCsv
    /\ uuid_calls = 0
    /\ runs_left = runs
    /\ pc = "idle"
    /\ input_dir = <<>>
    /\ id_map_path = "map1.json"
    /\ id_map = EmptyMap
    /\ rows = <<>>
    /\ threads = NoThreads
    /\ todo = <<>>
    /\ thread_key = 0
    /\ files = <<>>
    /\ conversation_id = 0
    /\ customer_name_final = <<>>
    /\ all_msgs = <<>>
    /\ exit_status = -1
    /\ loaded = EmptyMap
    /\ io_log = <<>>
    /\ skipped = {}
    /\ last = NoRun

\* No ID-map file yet, or a second one that json.loads rejects.
Init ==
    InitWith(RunTrees,
             {[p \in IdMapPaths |-> IF p = "map2.json" THEN f ELSE AbsentFile] :
                 f \in {AbsentFile, MalformedFile}},
             MaxRuns)

OneRunFiles == {[p \in IdMapPaths |-> IF p = "map2.json" THEN MalformedFile ELSE AbsentFile]}

InitSort == InitWith(SortTrees, OneRunFiles, 1)

InitRow == InitWith(RowTrees, OneRunFiles, 1)

(***************************************************************************)
(* main                                                                    *)
(***************************************************************************)
NewRun(dir, path) ==
    /\ pc \in {"idle", "done"}
    /\ runs_left > 0
    /\ runs_left' = runs_left - 1
    /\ input_dir' = dir
    /\ id_map_path' = path
    /\ id_map' = EmptyMap
    /\ rows' = <<>>
    /\ threads' = NoThreads
    /\ todo' = <<>>
    /\ thread_key' = 0
    /\ files' = <<>>
    /\ conversation_id' = 0
    /\ customer_name_final' = <<>>
    /\ all_msgs' = <<>>
    /\ loaded' = EmptyMap
    /\ io_log' = <<>>
    /\ skipped' = {}
    /\ UNCHANGED <<tree, id_files, csv_file, uuid_calls, last>>

\* main, lines 289-297: the input directory does not exist.
MainMissingRoot ==
    \E dir \in InputDirs, path \in IdMapPaths :
        /\ ~DirExists(tree, dir)
        /\ NewRun(dir, path)
        /\ exit_status' = 2
        /\ pc' = "done"

\* main, lines 289-295: the input directory exists.
MainStart ==
    \E dir \in InputDirs, path \in IdMapPaths :
        /\ DirExists(tree, dir)
        /\ NewRun(dir, path)
        /\ exit_status' = -1
        /\ pc' = "construct"

\* MessengerHTMLExtractor.__init__
ExtractorInit ==
    /\ pc = "construct"
    /\ id_files[id_map_path].kind # "malformed"
    /\ id_map' = load_id_map(id_files[id_map_path])
    /\ loaded' = load_id_map(id_files[id_map_path])
    /\ rows' = <<>>
    /\ io_log' = Append(io_log, "load_id_map")
    /\ pc' = "discover"
    /\ UNCHANGED <<tree, id_files, csv_file, uuid_calls, runs_left, input_dir,
                   id_map_path, threads, todo, thread_key, files, conversation_id,
                   customer_name_final, all_msgs, exit_status, skipped, last>>

\* MessengerHTMLExtractor.__init__ when json.loads raises: nothing catches
\* it, and the interpreter exits with status 1.
ExtractorInitRaises ==
    /\ pc = "construct"
    /\ id_files[id_map_path].kind = "malformed"
    /\ io_log' = Append(io_log, "load_id_map")
    /\ exit_status' = 1
    /\ pc' = "done"
    /\ UNCHANGED <<tree, id_files, csv_file, uuid_calls, runs_left, input_dir,
                   id_map_path, id_map, rows, threads, todo, thread_key, files,
                   conversation_id, customer_name_final, all_msgs, loaded, skipped,
                   last>>

(***************************************************************************)
(* process_directory                                                       *)
(***************************************************************************)
\* lines 193-200: discovery and grouping
FindAndGroup ==
    /\ pc = "discover"
    /\ LET grouped == GroupThreads(find_message_htmls(tree, input_dir))
       IN  /\ threads' = grouped
           /\ todo' = SortedKeys(DOMAIN grouped)
           /\ pc' = IF DOMAIN grouped = {} THEN "save_id_map" ELSE "thread"
    /\ UNCHANGED <<tree, id_files, csv_file, uuid_calls, runs_left, input_dir,
                   id_map_path, id_map, rows, thread_key, files, conversation_id,
                   customer_name_final, all_msgs, exit_status, loaded, io_log,
                   skipped, last>>

\* lines 201-205: the head of the loop over the threads
ThreadBegin ==
    /\ pc = "thread"
    /\ LET key == Head(todo)
           got == get_or_create_conversation_id(id_map, key, uuid_calls)
       IN  /\ thread_key' = key
           /\ conversation_id' = got.cid
           /\ id_map' = got.id_map
           /\ uuid_calls' = got.calls
           /\ files' = SortedPaths({threads[key][i] : i \in 1..Len(threads[key])})
    /\ customer_name_final' = <<>>
    /\ all_msgs' = <<>>
    /\ pc' = "parse"
    /\ UNCHANGED <<tree, id_files, csv_file, runs_left, input_dir, id_map_path, rows,
                   threads, todo, exit_status, loaded, io_log, skipped, last>>

AfterDocument == IF Tail(files) = <<>> THEN "emit" ELSE "parse"

\* lines 213-214
first_customer_name(final, customer_name) ==
    IF Truthy(customer_name) /\ ~Truthy(final) THEN customer_name ELSE final

\* lines 206-215: one document, parsed
ParseDoc ==
    /\ pc = "parse"
    /\ tree[Head(files)].ok
    /\ LET parsed == parse_messenger_html(tree[Head(files)])
       IN  /\ customer_name_final' =
                  first_customer_name(customer_name_final, parsed.customer_name)
           /\ all_msgs' = all_msgs \o parsed.messages
    /\ files' = Tail(files)
    /\ pc' = AfterDocument
    /\ UNCHANGED <<tree, id_files, csv_file, uuid_calls, runs_left, input_dir,
                   id_map_path, id_map, rows, threads, todo, thread_key,
                   conversation_id, exit_status, loaded, io_log, skipped, last>>

ParseDocAborts ==
    /\ pc = "parse"
    /\ ~tree[Head(files)].ok
    /\ exit_status' = 1
    /\ pc' = "done"
    /\ UNCHANGED <<tree, id_files, csv_file, uuid_calls, runs_left, input_dir,
                   id_map_path, id_map, rows, threads, todo, thread_key, files,
                   conversation_id, customer_name_final, all_msgs, loaded, io_log,
                   skipped, last>>

\* lines 206-211: one document whose parse raises
ParseDocRaises ==
    /\ pc = "parse"
    /\ ~tree[Head(files)].ok
    /\ skipped' = skipped \cup {Head(files)}
    /\ files' = Tail(files)
    /\ pc' = AfterDocument
    /\ UNCHANGED <<tree, id_files, csv_file, uuid_calls, runs_left, input_dir,
                   id_map_path, id_map, rows, threads, todo, thread_key,
                   conversation_id, customer_name_final, all_msgs, exit_status,
                   loaded, io_log, last>>

\* lines 217-238: the sort and the rows of one thread
SortAndEmit ==
    /\ pc = "emit"
    /\ LET sorted == sort_if_any_timestamp(all_msgs)
       IN  /\ all_msgs' = sorted
           /\ rows' = rows \o RowsFrom(conversation_id, 1, sorted, customer_name_final)
    /\ todo' = Tail(todo)
    /\ io_log' = Append(io_log, "thread")
    /\ pc' = IF Tail(todo) = <<>> THEN "save_id_map" ELSE "thread"
    /\ UNCHANGED <<tree, id_files, csv_file, uuid_calls, runs_left, input_dir,
                   id_map_path, id_map, threads, thread_key, files, conversation_id,
                   customer_name_final, exit_status, loaded, skipped, last>>

SaveIdMapOfThisRun ==
    /\ pc = "save_id_map"
    /\ id_files' = [id_files EXCEPT
                       ![id_map_path] = JsonFile([k \in DOMAIN threads |-> id_map[k]])]
    /\ io_log' = Append(io_log, "save_id_map")
    /\ pc' = "save_to_csv"
    /\ UNCHANGED <<tree, csv_file, uuid_calls, runs_left, input_dir, id_map_path,
                   id_map, rows, threads, todo, thread_key, files, conversation_id,
                   customer_name_final, all_msgs, exit_status, loaded, skipped, last>>

SaveIdMapWhenRows ==
    /\ pc = "save_id_map"
    /\ id_files' = IF rows = <<>> THEN id_files
                   ELSE [id_files EXCEPT ![id_map_path] = JsonFile(id_map)]
    /\ io_log' = IF rows = <<>> THEN io_log ELSE Append(io_log, "save_id_map")
    /\ pc' = "save_to_csv"
    /\ UNCHANGED <<tree, csv_file, uuid_calls, runs_left, input_dir, id_map_path,
                   id_map, rows, threads, todo, thread_key, files, conversation_id,
                   customer_name_final, all_msgs, exit_status, loaded, skipped, last>>

\* line 240
SaveIdMap ==
    /\ pc = "save_id_map"
    /\ id_files' = [id_files EXCEPT ![id_map_path] = JsonFile(id_map)]
    /\ io_log' = Append(io_log, "save_id_map")
    /\ pc' = "save_to_csv"
    /\ UNCHANGED <<tree, csv_file, uuid_calls, runs_left, input_dir, id_map_path,
                   id_map, rows, threads, todo, thread_key, files, conversation_id,
                   customer_name_final, all_msgs, exit_status, loaded, skipped, last>>

(***************************************************************************)
(* save_to_csv and the end of main                                         *)
(***************************************************************************)
SaveToCsvHeaderOnly ==
    /\ pc = "save_to_csv"
    /\ rows = <<>>
    /\ csv_file' = [exists |-> TRUE, header |-> fieldnames, rows |-> rows]
    /\ io_log' = Append(io_log, "write_csv")
    /\ pc' = "return"
    /\ UNCHANGED <<tree, id_files, uuid_calls, runs_left, input_dir, id_map_path,
                   id_map, rows, threads, todo, thread_key, files, conversation_id,
                   customer_name_final, all_msgs, exit_status, loaded, skipped, last>>

\* lines 244-246
SaveToCsvNoRows ==
    /\ pc = "save_to_csv"
    /\ rows = <<>>
    /\ pc' = "return"
    /\ UNCHANGED <<tree, id_files, csv_file, uuid_calls, runs_left, input_dir,
                   id_map_path, id_map, rows, threads, todo, thread_key, files,
                   conversation_id, customer_name_final, all_msgs, exit_status,
                   loaded, io_log, skipped, last>>

\* lines 248-266
SaveToCsv ==
    /\ pc = "save_to_csv"
    /\ rows # <<>>
    /\ csv_file' = [exists |-> TRUE, header |-> fieldnames, rows |-> rows]
    /\ io_log' = Append(io_log, "write_csv")
    /\ pc' = "return"
    /\ UNCHANGED <<tree, id_files, uuid_calls, runs_left, input_dir, id_map_path,
                   id_map, rows, threads, todo, thread_key, files, conversation_id,
                   customer_name_final, all_msgs, exit_status, loaded, skipped, last>>

\* lines 303-306
MainReturn ==
    /\ pc = "return"
    /\ exit_status' = 0
    /\ pc' = "done"
    /\ last' = [valid |-> TRUE, input_dir |-> input_dir, loaded |-> loaded,
                rows |-> rows, id_map |-> id_map]
    /\ UNCHANGED <<tree, id_files, csv_file, uuid_calls, runs_left, input_dir,
                   id_map_path, id_map, rows, threads, todo, thread_key, files,
                   conversation_id, customer_name_final, all_msgs, loaded, io_log,
                   skipped>>

Next ==
    \/ MainMissingRoot
    \/ MainStart
    \/ ExtractorInit
    \/ ExtractorInitRaises
    \/ FindAndGroup
    \/ ThreadBegin
    \/ ParseDoc
    \/ ParseDocRaises
    \/ SortAndEmit
    \/ SaveIdMap
    \/ SaveToCsvNoRows
    \/ SaveToCsv
    \/ MainReturn

Spec == Init /\ [][Next]_vars

SpecSort == InitSort /\ [][Next]_vars

SpecRow == InitRow /\ [][Next]_vars

(***************************************************************************)
(* What the claims speak of                                                *)
(***************************************************************************)
\* process_directory has returned in this run.
ProcessDone == pc \in {"save_to_csv", "return"} \/ (pc = "done" /\ exit_status = 0)

\* main has returned 0 in this run.
Completed == pc = "done" /\ exit_status = 0

Range(s) == {s[i] : i \in 1..Len(s)}

ConversationIds == {rows[i].conversation_id : i \in 1..Len(rows)}

RowsOfConversation(cid) == SelectSeq(rows, LAMBDA r : r.conversation_id = cid)

\* The documents the run is to read: under the input directory, named
\* message_*.html, outside every photos folder.
Discovered ==
    {path \in DOMAIN tree :
        /\ IsUnder(path, input_dir)
        /\ Name(path) \in {"message_10.html", "message_2.html"}
        /\ "photos" \notin Range(path)}

DiscoveredKeys == {sha256(Parent(path)) : path \in Discovered}

RECURSIVE MessageCount(_)
MessageCount(paths) ==
    IF paths = {} THEN 0
    ELSE LET path == CHOOSE x \in paths : TRUE
         IN  (IF tree[path].ok THEN Len(tree[path].sections) ELSE 0)
             + MessageCount(paths \ {path})

DocumentsOf(key) == {path \in Discovered : sha256(Parent(path)) = key}

Extends(bigger, smaller) ==
    \A k \in DOMAIN smaller : k \in DOMAIN bigger /\ bigger[k] = smaller[k]

\* The messages of a document that parses, none of one that does not or is
\* not there.
MessagesOf(path) ==
    IF path \in DOMAIN tree /\ tree[path].ok THEN ParseSections(tree[path].sections)
    ELSE <<>>

TimestampsOf(msgs) == {msgs[i].timestamp : i \in 1..Len(msgs)}

WithTimestamp(msgs, ts) == SelectSeq(msgs, LAMBDA m : m.timestamp = ts)

\* out is msgs with the dated messages first, in non-decreasing order of
\* timestamp, and the messages of one timestamp (or of none) in the order they
\* have in msgs; or msgs itself when nothing in it is dated.
IsChronological(out, msgs) ==
    IF TimestampsOf(msgs) \subseteq {None} THEN out = msgs
    ELSE /\ Len(out) = Len(msgs)
         /\ \A i, j \in 1..Len(out) :
                i < j =>
                    /\ out[i].timestamp = None => out[j].timestamp = None
                    /\ (out[i].timestamp # None /\ out[j].timestamp # None)
                           => out[i].timestamp[1] <= out[j].timestamp[1]
         /\ \A ts \in TimestampsOf(msgs) \cup TimestampsOf(out) :
                WithTimestamp(out, ts) = WithTimestamp(msgs, ts)

\* The rows the step has appended.
NewRows == SubSeq(rows', Len(rows) + 1, Len(rows'))

SameLetter(c, d) == c = d \/ {c, d} = {"J", "j"} \/ {c, d} = {"S", "s"}

EqualIgnoringCase(a, b) ==
    /\ Len(a) = Len(b)
    /\ \A i \in 1..Len(a) : SameLetter(a[i], b[i])

\* The first non-empty title among the documents of the thread f1, in the
\* order of their paths: "message_10.html" is before "message_2.html".
TitleOf(path) == IF path \in Discovered /\ tree[path].ok THEN tree[path].title ELSE <<>>

FirstTitle == IF TitleOf(P10) # <<>> THEN TitleOf(P10) ELSE TitleOf(P2)

WithoutConversationId(rs) ==
    [i \in 1..Len(rs) |->
        [msg_id |-> rs[i].msg_id, role |-> rs[i].role, text |-> rs[i].text,
         has_image |-> rs[i].has_image, image_count |-> rs[i].image_count,
         has_link |-> rs[i].has_link, link_count |-> rs[i].link_count,
         is_media_only |-> rs[i].is_media_only]]

(***************************************************************************)
(* C1                                                                      *)
(***************************************************************************)
\* C1: once process_directory has returned, the msg_id values of the rows of
\* one conversation_id are exactly 1..k, k the number of those rows, none
\* missing and none twice.
C1_MsgIdsContiguous ==
    ProcessDone =>
        \A cid \in ConversationIds :
            LET rs == RowsOfConversation(cid)
            IN  /\ {rs[i].msg_id : i \in 1..Len(rs)} = 1..Len(rs)
                /\ \A i, j \in 1..Len(rs) : rs[i].msg_id = rs[j].msg_id => i = j

\* Two conversations in one run, one of them with rows of two documents.
C1_Witness ==
    /\ Completed
    /\ Cardinality(ConversationIds) = 2
    /\ \E cid \in ConversationIds : Len(RowsOfConversation(cid)) >= 3

(***************************************************************************)
(* C2                                                                      *)
(***************************************************************************)
\* C2: when a thread's documents have been read, all_msgs is the messages of
\* the documents that parsed, message_10.html before message_2.html, each in
\* the order of its sections; the step that emits the thread's rows leaves it
\* chronological in the sense of IsChronological, and the i-th row emitted is
\* the row of its i-th message, with msg_id i.
C2_ThreadOrder ==
    [][pc = "emit" =>
          /\ all_msgs = MessagesOf(P10) \o MessagesOf(P2)
          /\ IsChronological(all_msgs', all_msgs)
          /\ Len(NewRows) = Len(all_msgs')
          /\ \A i \in 1..Len(NewRows) :
                 /\ NewRows[i].msg_id = i
                 /\ NewRows[i].conversation_id = conversation_id
                 /\ NewRows[i].role =
                        (IF all_msgs'[i].sender_name = <<"J">> THEN "customer"
                         ELSE "assistant")]_vars

\* A thread of two documents whose sort moved messages: dated and undated
\* ones, and two of one timestamp from different senders.
C2_Witness ==
    /\ pc = "save_id_map"
    /\ Len(all_msgs) >= 4
    /\ all_msgs # MessagesOf(P10) \o MessagesOf(P2)
    /\ MessagesOf(P10) # <<>>
    /\ MessagesOf(P2) # <<>>
    /\ None \in TimestampsOf(all_msgs)
    /\ \E i, j \in 1..Len(all_msgs) :
           /\ all_msgs[i].timestamp = all_msgs[j].timestamp
           /\ all_msgs[i].timestamp # None
           /\ all_msgs[i].sender_name # all_msgs[j].sender_name

(***************************************************************************)
(* C3                                                                      *)
(***************************************************************************)
\* C3: no step changes or removes an entry of an ID-map file or of the map in
\* memory; a thread key with an entry gets that entry's identifier and no
\* uuid4 call; and the map a run writes extends the map it loaded.
C3_MapOnlyGrows ==
    [][/\ \A p \in IdMapPaths :
              id_files[p].kind = "json" =>
                  /\ id_files'[p].kind = "json"
                  /\ Extends(id_files'[p].map, id_files[p].map)
       /\ pc \notin {"idle", "done"} => Extends(id_map', id_map)
       /\ (pc = "thread" /\ Head(todo) \in DOMAIN id_map) =>
              /\ conversation_id' = id_map[Head(todo)]
              /\ uuid_calls' = uuid_calls
              /\ id_map' = id_map
       /\ pc = "save_id_map" =>
              /\ id_files'[id_map_path].kind = "json"
              /\ Extends(id_files'[id_map_path].map, loaded)]_vars

\* A run that found an entry for one of its threads in the map it loaded and
\* added an entry for another.
C3_Witness ==
    /\ Completed
    /\ \E k \in DOMAIN threads : k \in DOMAIN loaded
    /\ \E k \in DOMAIN threads : k \notin DOMAIN loaded
    /\ rows # <<>>

(***************************************************************************)
(* C4                                                                      *)
(***************************************************************************)
\* C4 as stated: a run on the input of the previous run that loaded the same
\* ID map as the previous run has the same rows, and the entries it loaded
\* are unchanged.
C4_SameStartSameRows ==
    (pc = "return" /\ last.valid /\ last.input_dir = input_dir /\ last.loaded = loaded) =>
        /\ rows = last.rows
        /\ Extends(id_map, loaded)

\* C4, amended: a run on the input of the previous run has the rows of the
\* previous run and leaves the map as loaded when it loaded the map the
\* previous run saved, or loaded the map the previous run loaded and that map
\* has an entry for every thread; when it loaded the map the previous run
\* loaded, its rows are those of the previous run up to conversation_id, and
\* the entries loaded are unchanged.
C4_Idempotent ==
    (pc = "return" /\ last.valid /\ last.input_dir = input_dir) =>
        /\ last.id_map = loaded => (rows = last.rows /\ id_map = loaded)
        /\ last.loaded = loaded =>
               /\ WithoutConversationId(rows) = WithoutConversationId(last.rows)
               /\ Extends(id_map, loaded)
               /\ DOMAIN threads \subseteq DOMAIN loaded =>
                      (rows = last.rows /\ id_map = loaded)

\* The second of two runs on one input, started from the map the first saved.
C4_Witness ==
    /\ pc = "return"
    /\ last.valid
    /\ last.input_dir = input_dir
    /\ last.id_map = loaded
    /\ last.loaded # loaded
    /\ Cardinality(ConversationIds) = 2

(***************************************************************************)
(* C5                                                                      *)
(***************************************************************************)
\* C5: in every row, is_media_only is 1 exactly when the text is empty and
\* has_image or has_link is 1, and 0 otherwise.
C5_MediaOnly ==
    \A i \in 1..Len(rows) :
        /\ rows[i].is_media_only \in {0, 1}
        /\ rows[i].is_media_only = 1 <=>
               (rows[i].text = <<>> /\ (rows[i].has_image = 1 \/ rows[i].has_link = 1))

\* A row with no text and a link but no image.
C5_Witness ==
    \E i \in 1..Len(rows) :
        /\ rows[i].text = <<>>
        /\ rows[i].has_image = 0
        /\ rows[i].has_link = 1
        /\ rows[i].is_media_only = 1

(***************************************************************************)
(* C6                                                                      *)
(***************************************************************************)
\* A document whose parse raised is skipped and nothing else is: the run does
\* not exit with a failure after it nor stop before main returns, and when
\* the run has returned 0 every
\* thread has one row per message of its documents that parse, there is no
\* other row, the documents skipped are those that do not parse, and the
\* ID-map file holds the map.
Contained ==
    /\ skipped # {} => exit_status \in {-1, 0}
    /\ (skipped # {} /\ pc # "done") => ENABLED Next
    /\ Completed =>
           /\ skipped = {path \in Discovered : ~tree[path].ok}
           /\ Len(rows) = MessageCount(Discovered)
           /\ \A k \in DiscoveredKeys :
                  Len(RowsOfConversation(id_map[k])) = MessageCount(DocumentsOf(k))
           /\ id_files[id_map_path] = JsonFile(id_map)

C7_SaveIsLastStep ==
    Completed =>
        /\ io_log # <<>>
        /\ io_log[1] = "load_id_map"
        /\ Len(SelectSeq(io_log, LAMBDA e : e = "load_id_map")) = 1
        /\ Len(SelectSeq(io_log, LAMBDA e : e = "save_id_map")) = 1
        /\ io_log[Len(io_log)] = "save_id_map"

\* C7, amended: a run that returned 0 loaded the ID map once, first, then
\* processed every thread, then wrote the map once, and then wrote the CSV
\* file if it had rows: the write of the map is the last step of
\* process_directory, and the CSV write is the one step that can follow it.
C7_LoadThreadsSaveCsv ==
    Completed =>
        io_log = <<"load_id_map">>
                 \o [i \in 1..Cardinality(DiscoveredKeys) |-> "thread"]
                 \o <<"save_id_map">>
                 \o (IF rows # <<>> THEN <<"write_csv">> ELSE <<>>)

\* A run of two threads that wrote the CSV file after the map.
C7_Witness ==
    /\ Completed
    /\ Cardinality(DiscoveredKeys) = 2
    /\ io_log[Len(io_log)] = "write_csv"

(***************************************************************************)
(* C8                                                                      *)
(***************************************************************************)
\* C8: the role of the i-th row emitted for the thread is "customer" exactly
\* when the sender of its i-th message and the first non-empty title of the
\* thread's documents are both non-empty and equal ignoring case, and
\* "assistant" otherwise.
C8_Role ==
    [][pc = "emit" =>
          /\ Len(NewRows) = Len(all_msgs')
          /\ \A i \in 1..Len(NewRows) :
                 LET sender == all_msgs'[i].sender_name
                 IN  /\ NewRows[i].role \in {"customer", "assistant"}
                     /\ NewRows[i].role = "customer" <=>
                            /\ sender # <<>>
                            /\ FirstTitle # <<>>
                            /\ EqualIgnoringCase(sender, FirstTitle)]_vars

\* A customer row whose sender differs in case from the title, the title
\* being that of the second document and the message that of the first.
C8_Witness ==
    /\ Completed
    /\ TitleOf(P10) = <<>>
    /\ TitleOf(P2) = <<"j">>
    /\ \E i \in 1..Len(rows) : rows[i].role = "customer"
    /\ tree[P10].sections[1].sender = <<"J">>

(***************************************************************************)
(* C9                                                                      *)
(***************************************************************************)
\* A step of a run without rows leaves the CSV file as it is, and a run that
\* got to discovery and ends without rows exits with 0.
NoRowsNoFile ==
    /\ rows = <<>> => csv_file' = csv_file
    /\ (pc \in {"discover", "thread", "parse", "emit", "save_id_map", "save_to_csv",
                 "return"}
           /\ rows = <<>>
           /\ pc' = "done")
           => exit_status' = 0

C10_EveryThreadHasId ==
    /\ pc \in {"parse", "emit"} =>
           /\ thread_key \in DOMAIN id_map
           /\ conversation_id = id_map[thread_key]
    /\ Completed =>
           LET saved == id_files[id_map_path]
           IN  /\ saved.kind = "json"
               /\ DiscoveredKeys \subseteq DOMAIN saved.map
               /\ ConversationIds \subseteq {saved.map[k] : k \in DiscoveredKeys}
               /\ \A k \in DiscoveredKeys :
                      Len(RowsOfConversation(saved.map[k])) = MessageCount(DocumentsOf(k))

\* A run with a thread whose documents gave no row, and another with rows.
C10_Witness ==
    /\ Completed
    /\ rows # <<>>
    /\ \E k \in DiscoveredKeys :
           /\ MessageCount(DocumentsOf(k)) = 0
           /\ \A path \in DocumentsOf(k) : ~tree[path].ok

====
